---- MODULE Spec2Model ----
(***************************************************************************)
(* examples/kv/tests/graphql_helper.py: the script that probes a cluster   *)
(* endpoint, lists its servers, reads the cluster description, picks the   *)
(* server whose uri is the cluster's own and joins it with the role        *)
(* 'key-value'.                                                            *)
(*                                                                         *)
(* JSON / Python values are single-field records, the field naming the     *)
(* kind: [null |-> TRUE] is JSON null and Python None, [str |-> s] a       *)
(* string, [num |-> n] a number, [bool |-> b] a boolean, [arr |-> seq] a   *)
(* list and [obj |-> f] a dict.  A dict f is a record over the keys the    *)
(* model knows of; a key the dict does not hold is bound to Absent.        *)
(***************************************************************************)
EXTENDS Naturals, Sequences, FiniteSets

VARIABLES
    pc,               \* the statement of __main__ about to run
    calls,            \* the network calls issued so far, in order
    ping,             \* status code of the reachability probe (0: none yet)
    result,           \* what the last network call gave back
    servers,          \* __main__: servers
    cluster_info,     \* __main__: cluster_info
    bootstraped_uri,  \* __main__: bootstraped_uri
    key_value_server, \* __main__: key_value_server
    variables,        \* the variables of the mutation sent by assign_roles
    roles,            \* assign_roles: roles
    cluster,          \* the control plane: the mutations it has received
    answers,          \* the control plane: what it has answered to each
                      \* query since the last mutation
    success,          \* __main__: success
    responce,         \* __main__: responce
    stdout,           \* what print() wrote, in order
    error,            \* the uncaught exception that ended the run
    exit_code         \* the interpreter's exit status: {} while running, then {0} or {1}

vars == <<pc, calls, ping, result, servers, cluster_info, bootstraped_uri,
          key_value_server, variables, roles, cluster, answers, success,
          responce, stdout, error, exit_code>>

-----------------------------------------------------------------------------
(* Bounds of the model *)

\* longest serverList a response carries
MaxServers == 2

\* longest roles list assign_roles is called with
MaxRoles == 2

-----------------------------------------------------------------------------
(* Values *)

Absent == [absent |-> TRUE]
None == [null |-> TRUE]
JStr(s) == [str |-> s]
JNum(n) == [num |-> n]
JBool(b) == [bool |-> b]
JArr(s) == [arr |-> s]
JObj(f) == [obj |-> f]

IsObj(v) == "obj" \in DOMAIN v
IsArr(v) == "arr" \in DOMAIN v

\* a local nothing has been assigned to yet
Unset == [unset |-> TRUE]

\* outcome of evaluating an expression: a value, or an exception raised at a line
Ok(v) == [ok |-> v]
Raise(kind, line) == [raise |-> kind, line |-> line]
IsOk(r) == "ok" \in DOMAIN r

NoError == [raise |-> "none", line |-> 0]
NotExited == {}

\* d.get(k) in place of d[k]: None for a key the dict does not hold
Subscript_get(d, k, line) ==
    IF IsObj(d)
    THEN IF k \in DOMAIN d.obj /\ d.obj[k] # Absent
         THEN Ok(d.obj[k])
         ELSE Ok(None)
    ELSE Raise("TypeError", line)

\* d[k] for a str key k: KeyError on a dict without k, TypeError on None, a
\* number or a list
Subscript(d, k, line) ==
    IF IsObj(d)
    THEN IF k \in DOMAIN d.obj /\ d.obj[k] # Absent
         THEN Ok(d.obj[k])
         ELSE Raise("KeyError", line)
    ELSE Raise("TypeError", line)

\* k in d for a str k: key membership on a dict, element membership on a
\* list, TypeError on None, a number or a boolean
Contains(d, k, line) ==
    IF IsObj(d)
    THEN Ok(k \in DOMAIN d.obj /\ d.obj[k] # Absent)
    ELSE IF IsArr(d)
    THEN Ok(\E i \in 1..Len(d.arr) : d.arr[i] = JStr(k))
    ELSE Raise("TypeError", line)

\* a truth test that lets the empty list through
Truthy_always(seq) == Len(seq) >= 0

\* bool(v) of a list
Truthy(seq) == Len(seq) > 0

-----------------------------------------------------------------------------
(* __server_description_fields, ServerDescription, parse_server_description *)

server_description_fields ==
    <<"uri", "alias", "status", "uuid", "message", "replicaset">>

FieldSet == {server_description_fields[i] : i \in 1..Len(server_description_fields)}

\* a parse that fills the tuple in another order than its fields: uri and
\* alias change places
parse_server_description_swapped(kwdict) ==
    [prop \in FieldSet |->
        LET from == IF prop = "uri" THEN "alias"
                    ELSE IF prop = "alias" THEN "uri" ELSE prop
        IN  IF from \in DOMAIN kwdict /\ kwdict[from] # Absent
            THEN kwdict[from] ELSE None]

parse_server_description(kwdict) ==
    [prop \in FieldSet |->
        IF prop \in DOMAIN kwdict /\ kwdict[prop] # Absent
        THEN kwdict[prop] ELSE None]

\* get_servers from the point client.execute comes back: json.loads, then
\* data['data']['serverList'] mapped through parse_server_description
get_servers(res) ==
    IF "raise" \in DOMAIN res THEN Raise(res.raise, 41)
    ELSE IF "body" \in DOMAIN res THEN Raise("JSONDecodeError", 56)
    ELSE LET data == res.json
             d1 == Subscript(data, "data", 59)
             d2 == Subscript(d1.ok, "serverList", 59)
         IN  IF ~IsOk(d1) THEN d1
             ELSE IF ~IsOk(d2) THEN d2
             ELSE IF ~IsArr(d2.ok) THEN Raise("TypeError", 57)
             ELSE Ok([i \in 1..Len(d2.ok.arr) |->
                        parse_server_description(d2.ok.arr[i])])

\* get_cluster_info from the point client.execute comes back
get_cluster_info(res) ==
    IF "raise" \in DOMAIN res THEN Raise(res.raise, 68)
    ELSE IF "body" \in DOMAIN res THEN Raise("JSONDecodeError", 83)
    ELSE LET data == res.json
             d1 == Subscript(data, "data", 84)
             d2 == Subscript(d1.ok, "cluster", 84)
         IN  IF ~IsOk(d1) THEN d1
             ELSE IF ~IsOk(d2) THEN d2
             ELSE Ok(d2.ok)

\* cluster_info['clusterSelf']['uri']
self_uri(info) ==
    LET s == Subscript(info, "clusterSelf", 133)
    IN  IF ~IsOk(s) THEN s ELSE Subscript(s.ok, "uri", 133)

-----------------------------------------------------------------------------
(* find, called with lambda server: server.uri == bootstraped_uri *)

\* a find that keeps scanning and returns the last match
RECURSIVE find_last(_, _, _)
find_last(uri, seq, default) ==
    IF seq = <<>> THEN default
    ELSE IF Head(seq).uri = uri THEN find_last(uri, Tail(seq), Head(seq))
    ELSE find_last(uri, Tail(seq), default)

RECURSIVE find(_, _, _)
find(uri, seq, default) ==
    IF seq = <<>> THEN default
    ELSE IF Head(seq).uri = uri THEN Head(seq)
    ELSE find(uri, Tail(seq), default)

-----------------------------------------------------------------------------
(* assign_roles *)

\* the role __main__ asks for, and the list it passes to assign_roles
Role == "key-value"
Roles == <<JStr(Role)>>

\* the name of the mutation's field, in place of the alias the response
\* carries
ResultKey_field == "join_server"

\* the key the mutation's result is read under: the alias the mutation text
\* gives join_server
ResultKey == "createReplicasetResponse"

\* a role check that only asks for the knownRoles field to be there
role_known_unchecked(info) ==
    LET k == Subscript(info, "knownRoles", 143)
    IN  IF ~IsOk(k) THEN k ELSE Ok(TRUE)

\* 'key-value' in cluster_info['knownRoles']
role_known(info) ==
    LET k == Subscript(info, "knownRoles", 143)
    IN  IF ~IsOk(k) THEN k ELSE Contains(k.ok, Role, 143)

\* variables cut down to the two the mutation text declares, $uri and $roles
mutation_variables_declared(server_description, rs) ==
    [k \in FieldSet \cup {"roles"} |->
        IF k = "roles" THEN JArr(rs)
        ELSE IF k = "uri" THEN server_description[k] ELSE None]

\* {**server_description._asdict(), 'roles': roles}
mutation_variables(server_description, rs) ==
    [k \in FieldSet \cup {"roles"} |->
        IF k = "roles" THEN JArr(rs) ELSE server_description[k]]

\* a classification that does not look at errors
classify_ignoring_errors(data) ==
    LET c1 == Contains(data, "data", 110)
        c2 == Contains(data.obj.data, ResultKey, 111)
    IN  IF ~IsOk(c1) THEN c1
        ELSE IF ~c1.ok THEN Ok(FALSE)
        ELSE c2

\* the first element of the tuple assign_roles returns
classify(data) ==
    LET c1 == Contains(data, "data", 110)
        c2 == Contains(data.obj.data, ResultKey, 111)
        c3 == Contains(data, "errors", 112)
    IN  IF ~IsOk(c1) THEN c1
        ELSE IF ~c1.ok THEN Ok(FALSE)
        ELSE IF ~IsOk(c2) THEN c2
        ELSE IF ~c2.ok THEN Ok(FALSE)
        ELSE Ok(~c3.ok)

\* assign_roles from the point client.execute comes back: the tuple
\* (success, data), or the exception raised
assign_roles(res) ==
    IF "raise" \in DOMAIN res THEN Raise(res.raise, 92)
    ELSE IF "body" \in DOMAIN res THEN Raise("JSONDecodeError", 106)
    ELSE LET c == classify(res.json)
         IN  IF ~IsOk(c) THEN c
             ELSE Ok([success |-> c.ok, data |-> res.json])

\* print(data) runs once json.loads has returned
assign_roles_prints(res) == "json" \in DOMAIN res

-----------------------------------------------------------------------------
(* What the endpoint may answer *)

Uris == {"a:1", "b:2", "c:3"}

raw_server(uri, alias) ==
    [uri |-> uri, alias |-> alias, status |-> Absent, uuid |-> Absent,
     message |-> Absent, replicaset |-> Absent]

\* entries of serverList: one per uri, a second entry for b:2 that differs in
\* its alias, an entry with every field, and an entry without uri
RawServers ==
    {raw_server(JStr(u), JStr("kv")) : u \in Uris}
    \cup {raw_server(JStr("b:2"), Absent), raw_server(Absent, JStr("nouri"))}
    \cup {[uri |-> JStr("a:1"), alias |-> JStr("kv"), status |-> JStr("healthy"),
           uuid |-> JStr("u-1"), message |-> JStr(""),
           replicaset |-> JObj([uuid |-> JStr("r-1")])]}

RECURSIVE SeqsUpTo(_, _)
SeqsUpTo(S, n) ==
    IF n = 0 THEN {<<>>}
    ELSE LET shorter == SeqsUpTo(S, n - 1)
         IN  shorter \cup {Append(q, x) : q \in shorter, x \in S}

Errors == JArr(<<JObj([message |-> JStr("oops")])>>)

Envelope(data, errors) == JObj([data |-> data, errors |-> errors])

\* a call that did not complete, a body that is not JSON, or a parsed envelope
Failures(kinds) == {[raise |-> k] : k \in kinds} \cup {[body |-> "<html>"]}

PingOutcomes ==
    {[raise |-> "Timeout"], [raise |-> "ConnectionError"]}
    \cup {[status |-> c] : c \in {200, 204, 404, 500}}

ServersData ==
    {Absent, None, JObj([serverList |-> Absent]), JObj([serverList |-> None])}
    \cup {JObj([serverList |-> JArr(q)]) : q \in SeqsUpTo(RawServers, MaxServers)}

ServersResponses ==
    Failures({"URLError"})
    \cup {[json |-> Envelope(d, e)] : d \in ServersData, e \in {Absent, Errors}}

KnownRoles ==
    {Absent, None, JArr(<<>>), JArr(<<JStr("bogus")>>), JArr(<<JStr(Role)>>),
     JArr(<<JStr("bogus"), JStr(Role)>>)}

ClusterSelf ==
    {Absent, None, JObj([uri |-> Absent, uuid |-> JStr("u-1")])}
    \cup {JObj([uri |-> u, uuid |-> JStr("u-1")]) : u \in {JStr(x) : x \in Uris} \cup {None}}

ClusterData ==
    {Absent, None, JObj([cluster |-> Absent]), JObj([cluster |-> None])}
    \cup {JObj([cluster |-> JObj([clusterSelf |-> s, knownRoles |-> k])]) :
            s \in ClusterSelf, k \in KnownRoles}

ClusterResponses ==
    Failures({"URLError"})
    \cup {[json |-> Envelope(d, Absent)] : d \in ClusterData}

MutationData ==
    {Absent, None, JNum(0)}
    \cup {JObj([createReplicasetResponse |-> a, join_server |-> b]) :
            a \in {Absent, None, JBool(TRUE), JBool(FALSE)},
            b \in {Absent, JBool(TRUE)}}

MutationResponses ==
    Failures({"URLError"})
    \cup {[json |-> Envelope(d, e)] : d \in MutationData, e \in {Absent, Errors}}

-----------------------------------------------------------------------------
(* The control plane, as far as the calls of this client go: a query leaves
   it as it is and a mutation changes it.  As long as it is not changed it
   answers a query the way it answered it before. *)

NoAnswers == [getServers |-> Unset, getClusterState |-> Unset]

\* the control plane after an operation with variables vs
Serve(operation, vs, c) ==
    IF operation = "mutation" THEN Append(c, vs) ELSE c

\* what is still known of its answers after the operation
Forget(operation, a) ==
    IF operation = "mutation" THEN NoAnswers ELSE a

\* the outcomes of a query it answered with `before` (Unset: not yet): the
\* call may fail, the answer is the one given before
Answers(responses, before) ==
    {r \in responses : "json" \in DOMAIN r => before \in {Unset, r.json}}

\* the answer on record once r has come back
AnswerOnRecord(r, before) == IF "json" \in DOMAIN r THEN r.json ELSE before

\* a cluster read that is sent as a mutation
get_cluster_info_operation_mutation == "mutation"

\* the kind of operation each call sends
get_servers_operation == "query"
get_cluster_info_operation == "query"
assign_roles_operation == "mutation"

-----------------------------------------------------------------------------
(* __main__ *)

Init ==
    /\ pc = "ping"
    /\ calls = <<>>
    /\ ping = 0
    /\ result = Unset
    /\ servers = <<>>
    /\ cluster_info = Unset
    /\ bootstraped_uri = Unset
    /\ key_value_server = Unset
    /\ variables = Unset
    /\ roles = Unset
    /\ cluster = <<>>
    /\ answers = NoAnswers
    /\ success = FALSE
    /\ responce = Unset
    /\ stdout = <<>>
    /\ error = NoError
    /\ exit_code = NotExited

\* an exception caught by a loop around the script that starts over
Uncaught_retry(e) ==
    /\ pc' = "ping"
    /\ UNCHANGED <<error, exit_code>>

\* an exception nothing catches: the traceback goes to stderr, the
\* interpreter exits with status 1
Uncaught(e) ==
    /\ pc' = "failed"
    /\ error' = e
    /\ exit_code' = {1}

Continue(next) ==
    /\ pc' = next
    /\ UNCHANGED <<error, exit_code>>

printed(line, text) == Append(stdout, [line |-> line, text |-> text])

\* a probe whose status is not looked at
status_ok_any(status) == status = status

\* a probe that lets every 2xx status through
status_ok_2xx(status) == status \in 200..299

\* assert ping.status_code == 200
status_ok(status) == status = 200

\* requests.get('http://{}/'.format(url), timeout=10) goes out
PingSend ==
    /\ pc = "ping"
    /\ calls' = Append(calls, "probe")
    /\ pc' = "ping_wait"
    /\ UNCHANGED <<cluster, answers, ping, result, servers, cluster_info, bootstraped_uri,
                   key_value_server, variables, roles, success, responce, stdout,
                   error, exit_code>>

\* the probe returns or times out; assert ping.status_code == 200
PingRecv ==
    /\ pc = "ping_wait"
    /\ \E r \in PingOutcomes :
        /\ result' = r
        /\ IF "raise" \in DOMAIN r
           THEN /\ Uncaught(Raise(r.raise, 121))
                /\ UNCHANGED ping
           ELSE /\ ping' = r.status
                /\ IF status_ok(r.status)
                   THEN Continue("get_servers")
                   ELSE Uncaught(Raise("AssertionError", 122))
    /\ UNCHANGED <<cluster, answers, calls, servers, cluster_info, bootstraped_uri,
                   key_value_server, variables, roles, success, responce, stdout>>

\* get_servers(url): client.execute goes out
GetServersSend ==
    /\ pc = "get_servers"
    /\ calls' = Append(calls, "getServers")
    /\ pc' = "get_servers_wait"
    /\ cluster' = Serve(get_servers_operation, Unset, cluster)
    /\ answers' = Forget(get_servers_operation, answers)
    /\ UNCHANGED <<ping, result, servers, cluster_info, bootstraped_uri,
                   key_value_server, variables, roles, success, responce, stdout,
                   error, exit_code>>

\* get_servers returns or raises; the servers are printed; assert servers
GetServersRecv ==
    /\ pc = "get_servers_wait"
    /\ \E r \in Answers(ServersResponses, answers.getServers) :
        LET o == get_servers(r)
        IN  /\ result' = r
            /\ answers' = [answers EXCEPT !.getServers = AnswerOnRecord(r, @)]
            /\ IF ~IsOk(o)
               THEN /\ Uncaught(o)
                    /\ UNCHANGED <<servers, stdout>>
               ELSE /\ servers' = o.ok
                    /\ stdout' = stdout \o <<[line |-> 127, text |-> JArr(o.ok)],
                                             [line |-> 128, text |-> JStr("-")]>>
                    /\ IF Truthy(o.ok)
                       THEN Continue("get_cluster_info")
                       ELSE Uncaught(Raise("AssertionError", 130))
    /\ UNCHANGED <<cluster, calls, ping, cluster_info, bootstraped_uri,
                   key_value_server, variables, roles, success, responce>>

\* get_cluster_info(url): client.execute goes out
GetClusterInfoSend ==
    /\ pc = "get_cluster_info"
    /\ calls' = Append(calls, "getClusterState")
    /\ pc' = "get_cluster_info_wait"
    /\ cluster' = Serve(get_cluster_info_operation, Unset, cluster)
    /\ answers' = Forget(get_cluster_info_operation, answers)
    /\ UNCHANGED <<ping, result, servers, cluster_info, bootstraped_uri,
                   key_value_server, variables, roles, success, responce, stdout,
                   error, exit_code>>

\* get_cluster_info returns or raises; bootstraped_uri is read from it
GetClusterInfoRecv ==
    /\ pc = "get_cluster_info_wait"
    /\ \E r \in Answers(ClusterResponses, answers.getClusterState) :
        LET o == get_cluster_info(r)
            u == self_uri(o.ok)
        IN  /\ result' = r
            /\ answers' = [answers EXCEPT !.getClusterState = AnswerOnRecord(r, @)]
            /\ IF ~IsOk(o)
               THEN /\ Uncaught(o)
                    /\ UNCHANGED <<cluster_info, bootstraped_uri>>
               ELSE /\ cluster_info' = o.ok
                    /\ IF ~IsOk(u)
                       THEN /\ Uncaught(u)
                            /\ UNCHANGED bootstraped_uri
                       ELSE /\ bootstraped_uri' = u.ok
                            /\ Continue("find")
    /\ UNCHANGED <<cluster, calls, ping, servers, key_value_server, variables, roles,
                   success, responce, stdout>>

\* key_value_server = find(lambda server: server.uri == bootstraped_uri,
\*                         servers, servers[0])
Find ==
    /\ pc = "find"
    /\ IF servers = <<>>
       THEN /\ Uncaught(Raise("IndexError", 138))
            /\ UNCHANGED key_value_server
       ELSE /\ key_value_server' = find(bootstraped_uri, servers, servers[1])
            /\ Continue("check")
    /\ UNCHANGED <<cluster, answers, calls, ping, result, servers, cluster_info, bootstraped_uri,
                   variables, roles, success, responce, stdout>>

\* print(key_value_server); assert key_value_server;
\* assert 'key-value' in cluster_info['knownRoles']
Check ==
    /\ pc = "check"
    /\ stdout' = printed(141, [tuple |-> key_value_server])
    /\ LET k == role_known(cluster_info)
       IN  IF ~Truthy(server_description_fields)
           THEN Uncaught(Raise("AssertionError", 142))
           ELSE IF ~IsOk(k) THEN Uncaught(k)
           ELSE IF ~k.ok THEN Uncaught(Raise("AssertionError", 143))
           ELSE Continue("assign_roles")
    /\ UNCHANGED <<cluster, answers, calls, ping, result, servers, cluster_info, bootstraped_uri,
                   key_value_server, variables, roles, success, responce>>

\* assign_roles entered with its arguments: assert roles, then
\* client.execute goes out with the mutation's variables
assign_roles_enter(server_description, rs) ==
    /\ roles' = rs
    /\ IF ~Truthy(rs)
       THEN /\ Uncaught(Raise("AssertionError", 88))
            /\ UNCHANGED <<calls, variables, cluster, answers>>
       ELSE /\ calls' = Append(calls, "assignRole")
            /\ variables' = mutation_variables(server_description, rs)
            /\ cluster' = Serve(assign_roles_operation,
                                mutation_variables(server_description, rs),
                                cluster)
            /\ answers' = Forget(assign_roles_operation, answers)
            /\ Continue("assign_roles_wait")
    /\ UNCHANGED <<ping, result, servers, cluster_info, bootstraped_uri,
                   key_value_server, success, responce, stdout>>

\* assign_roles(url, key_value_server, ['key-value'])
AssignRolesSend ==
    /\ pc = "assign_roles"
    /\ assign_roles_enter(key_value_server, Roles)

\* assign_roles prints the parsed response and returns (success, data), or
\* raises
AssignRolesRecv ==
    /\ pc = "assign_roles_wait"
    /\ \E r \in MutationResponses :
        LET o == assign_roles(r)
        IN  /\ result' = r
            /\ stdout' = IF assign_roles_prints(r)
                         THEN printed(107, r.json) ELSE stdout
            /\ IF ~IsOk(o)
               THEN /\ Uncaught(o)
                    /\ UNCHANGED <<success, responce>>
               ELSE /\ success' = o.ok.success
                    /\ responce' = o.ok.data
                    /\ Continue("report")
    /\ UNCHANGED <<cluster, answers, calls, ping, servers, cluster_info, bootstraped_uri,
                   key_value_server, variables, roles>>

\* a report that goes back to discovery when the assignment failed
Report_rediscover ==
    /\ pc = "report"
    /\ IF success
       THEN /\ stdout' = printed(147, JStr("success"))
            /\ pc' = "done"
            /\ exit_code' = {0}
       ELSE /\ stdout' = stdout \o <<[line |-> 149, text |-> JStr("fail")],
                                     [line |-> 150, text |-> responce]>>
            /\ pc' = "get_servers"
            /\ UNCHANGED exit_code
    /\ UNCHANGED <<cluster, answers, calls, ping, result, servers, cluster_info, bootstraped_uri,
                   key_value_server, variables, roles, success, responce, error>>

\* a report that waits, instead of exiting, when the assignment failed
Report_wait ==
    /\ pc = "report"
    /\ IF success
       THEN /\ stdout' = printed(147, JStr("success"))
            /\ pc' = "done"
            /\ exit_code' = {0}
       ELSE UNCHANGED <<stdout, pc, exit_code>>
    /\ UNCHANGED <<cluster, answers, calls, ping, result, servers, cluster_info, bootstraped_uri,
                   key_value_server, variables, roles, success, responce, error>>

\* a report without the exit(1) of the failure branch
Report_no_exit ==
    /\ pc = "report"
    /\ IF success
       THEN /\ stdout' = printed(147, JStr("success"))
            /\ pc' = "done"
            /\ exit_code' = {0}
       ELSE /\ stdout' = stdout \o <<[line |-> 149, text |-> JStr("fail")],
                                     [line |-> 150, text |-> responce]>>
            /\ pc' = "done"
            /\ exit_code' = {0}
    /\ UNCHANGED <<cluster, answers, calls, ping, result, servers, cluster_info, bootstraped_uri,
                   key_value_server, variables, roles, success, responce, error>>

\* if success: print 'success' (and fall off the end of the script)
\* else: print 'fail', print(responce), exit(1)
Report ==
    /\ pc = "report"
    /\ IF success
       THEN /\ stdout' = printed(147, JStr("success"))
            /\ pc' = "done"
            /\ exit_code' = {0}
       ELSE /\ stdout' = stdout \o <<[line |-> 149, text |-> JStr("fail")],
                                     [line |-> 150, text |-> responce]>>
            /\ pc' = "failed"
            /\ exit_code' = {1}
    /\ UNCHANGED <<cluster, answers, calls, ping, result, servers, cluster_info, bootstraped_uri,
                   key_value_server, variables, roles, success, responce, error>>

Next ==
    \/ PingSend
    \/ PingRecv
    \/ GetServersSend
    \/ GetServersRecv
    \/ GetClusterInfoSend
    \/ GetClusterInfoRecv
    \/ Find
    \/ Check
    \/ AssignRolesSend
    \/ AssignRolesRecv
    \/ Report

Spec == Init /\ [][Next]_vars

\* the steps the interpreter takes on its own
Runs ==
    \/ PingSend
    \/ GetServersSend
    \/ GetClusterInfoSend
    \/ Find
    \/ Check
    \/ AssignRolesSend
    \/ Report

\* the returns of the calls that carry no timeout: client.execute
Returns ==
    \/ GetServersRecv
    \/ GetClusterInfoRecv
    \/ AssignRolesRecv

\* The interpreter keeps running the script, and requests.get(url,
\* timeout=10) comes back; nothing makes client.execute come back.
FairSpec == Spec /\ WF_vars(Runs) /\ WF_vars(PingRecv)

-----------------------------------------------------------------------------
(* assign_roles on its own, called with any server description and any list
   of roles *)

RoleNames == {JStr(Role), JStr("bogus")}

CallInit ==
    /\ pc = "called"
    /\ key_value_server \in {parse_server_description(e) : e \in RawServers}
    /\ roles \in SeqsUpTo(RoleNames, MaxRoles)
    /\ cluster = <<>>
    /\ answers = NoAnswers
    /\ calls = <<>>
    /\ ping = 0
    /\ result = Unset
    /\ servers = <<>>
    /\ cluster_info = Unset
    /\ bootstraped_uri = Unset
    /\ variables = Unset
    /\ success = FALSE
    /\ responce = Unset
    /\ stdout = <<>>
    /\ error = NoError
    /\ exit_code = NotExited

\* assign_roles(url, server_description, roles)
AssignRolesCalled ==
    /\ pc = "called"
    /\ assign_roles_enter(key_value_server, roles)

CallNext ==
    \/ AssignRolesCalled
    \/ AssignRolesRecv

CallSpec == CallInit /\ [][CallNext]_vars

-----------------------------------------------------------------------------
(* Vocabulary of the properties *)

Last(seq) == seq[Len(seq)]

Issued(call) == \E i \in 1..Len(calls) : calls[i] = call

\* find has run
Located == key_value_server # Unset

\* the role check of __main__ has run
Checked == Located /\ pc # "check"

\* knownRoles of the cluster description is a list
RolesListed(info) ==
    /\ IsObj(info)
    /\ IsArr(info.obj.knownRoles)

RoleIn(info) ==
    /\ RolesListed(info)
    /\ \E i \in 1..Len(info.obj.knownRoles.arr) :
           info.obj.knownRoles.arr[i] = JStr(Role)

Matches == {i \in 1..Len(servers) : servers[i].uri = bootstraped_uri}

-----------------------------------------------------------------------------
(* C1: the located node is the first node, in sequence order, whose uri
   equals the cluster's own uri; when no node's uri equals it, the located
   node is the first element of the sequence. *)
C1_LocatorFirstMatchOrFirst ==
    Located =>
        IF Matches = {}
        THEN key_value_server = servers[1]
        ELSE \E i \in Matches :
                /\ \A j \in Matches : i <= j
                /\ key_value_server = servers[i]

\* two nodes carry the cluster's own uri, the second one differs from the
\* first, and the first was taken
C1_Witness ==
    /\ Located
    /\ Matches = {1, 2}
    /\ servers[1] # servers[2]
    /\ key_value_server = servers[1]

(* C2: the mutation is never sent for a role that is not in the knownRoles
   fetched in the run; when the role check runs on a knownRoles list the
   role is absent from, the run fails there (the AssertionError of the
   check) having issued the probe and the two queries and nothing else. *)
C2_UnknownRoleNoMutation ==
    /\ Issued("assignRole") => RoleIn(cluster_info)
    /\ (Checked /\ RolesListed(cluster_info) /\ ~RoleIn(cluster_info)) =>
            /\ pc = "failed"
            /\ error = Raise("AssertionError", 143)
            /\ calls = <<"probe", "getServers", "getClusterState">>

C2_Witness ==
    /\ Checked
    /\ RolesListed(cluster_info)
    /\ cluster_info.obj.knownRoles.arr = <<JStr("bogus")>>
    /\ error = Raise("AssertionError", 143)

\* the mutation's response has come back as JSON and assign_roles has run on it
Answered ==
    /\ Issued("assignRole")
    /\ pc # "assign_roles_wait"
    /\ "json" \in DOMAIN result

\* assign_roles has returned to __main__
Returned == Answered /\ error = NoError

HasKey(d, k) == IsObj(d) /\ k \in DOMAIN d.obj /\ d.obj[k] # Absent

\* the envelope holds data, data holds the key, the envelope holds no errors
SuccessShape(envelope, key) ==
    /\ HasKey(envelope, "data")
    /\ HasKey(envelope.obj.data, key)
    /\ ~HasKey(envelope, "errors")

(* C3: assign_roles classifies a response envelope as successful if and
   only if the envelope holds data, data holds the mutation's result key and
   the envelope holds no errors; every other envelope yields success =
   false. *)
C3_ClassifiedIffShape ==
    Answered =>
        /\ Returned
        /\ success = SuccessShape(result.json, ResultKey)

(* C4 as stated: the envelope { "data": { "join_server": true } } without
   errors gives success = true. *)
C4_JoinServerKeyGivesSuccess ==
    (Answered /\ result.json =
        Envelope(JObj([createReplicasetResponse |-> Absent,
                       join_server |-> JBool(TRUE)]), Absent)) =>
        /\ Returned
        /\ success

(* C4, amended: the result key is createReplicasetResponse, the alias the
   mutation gives join_server: the envelope
   { "data": { "createReplicasetResponse": true } } without errors gives
   success = true, and an envelope whose data is an object without that key
   gives success = false, join_server present or not. *)
C4_AliasKeyGivesSuccess ==
    /\ (Answered /\ result.json =
            Envelope(JObj([createReplicasetResponse |-> JBool(TRUE),
                           join_server |-> Absent]), Absent)) =>
            /\ Returned
            /\ success
    /\ (Answered /\ IsObj(result.json.obj.data)
                 /\ ~HasKey(result.json.obj.data, "createReplicasetResponse")) =>
            /\ Returned
            /\ ~success

C4_Witness ==
    /\ pc = "done"
    /\ result.json = Envelope(JObj([createReplicasetResponse |-> JBool(TRUE),
                                    join_server |-> Absent]), Absent)

(* C5: for every parsed envelope that is not of the success shape,
   assign_roles returns success = false together with the envelope
   unchanged, and raises nothing. *)
C5_FailedShapeReturnsEnvelope ==
    (Answered /\ ~SuccessShape(result.json, ResultKey)) =>
        /\ Returned
        /\ ~success
        /\ responce = result.json

-----------------------------------------------------------------------------
(* The run's states *)

\* Idle: nothing issued yet.  Discovering: the probe and the two queries.
\* Located: find has chosen the node.  Assigning: assign_roles, up to the
\* report of its result.
RunState(at) ==
    CASE at = "ping" -> "Idle"
      [] at \in {"ping_wait", "get_servers", "get_servers_wait",
                 "get_cluster_info", "get_cluster_info_wait", "find"}
            -> "Discovering"
      [] at = "check" -> "Located"
      [] at \in {"assign_roles", "assign_roles_wait", "report"} -> "Assigning"
      [] at = "done" -> "Done"
      [] at = "failed" -> "Failed"

Edges ==
    {<<"Idle", "Discovering">>, <<"Discovering", "Located">>,
     <<"Located", "Assigning">>, <<"Assigning", "Done">>}
    \cup {<<s, "Failed">> : s \in {"Idle", "Discovering", "Located", "Assigning"}}

Order == <<"probe", "getServers", "getClusterState", "assignRole">>

IsPrefix(p, q) ==
    /\ Len(p) <= Len(q)
    /\ \A i \in 1..Len(p) : p[i] = q[i]

\* the call did not complete, the body is not JSON, the probe's status is not
\* 200, or the envelope has no data or a data that is no object
FailedResponse(r) ==
    \/ "raise" \in DOMAIN r
    \/ "body" \in DOMAIN r
    \/ "status" \in DOMAIN r /\ r.status # 200
    \/ "json" \in DOMAIN r /\ ~HasKey(r.json, "data")
    \/ "json" \in DOMAIN r /\ ~IsObj(r.json.obj.data)

\* the last response failed, or it is the mutation's and is not of the
\* success shape
Failing ==
    \/ FailedResponse(result)
    \/ Answered /\ ~SuccessShape(result.json, ResultKey)

(* C6: every step of a run either stays in its state or moves along
   Idle -> Discovering -> Located -> Assigning -> Done | Failed, or from a
   state that is not terminal to Failed; Done and Failed are never left. *)
C6_ForwardOnly ==
    [][\/ RunState(pc') = RunState(pc)
       \/ <<RunState(pc), RunState(pc')>> \in Edges]_vars

C6_Witness ==
    /\ pc = "done"
    /\ calls = Order

(* C7: the network calls go out in the order probe, getServers,
   getClusterState, assignRole, each only after the one before it
   succeeded; the mutation only after the probe answered 200, getServers
   gave servers, getClusterState gave the cluster description and the role
   check passed. *)
C7_GatedSequence ==
    /\ IsPrefix(calls, Order)
    /\ Issued("getServers") => ping = 200
    /\ Issued("getClusterState") => Truthy(servers)
    /\ Issued("assignRole") =>
            /\ ping = 200
            /\ Truthy(servers)
            /\ cluster_info # Unset
            /\ bootstraped_uri # Unset
            /\ Located
            /\ RoleIn(cluster_info)

C7_Witness ==
    /\ calls = Order
    /\ pc = "assign_roles_wait"

(* C8: no call is issued twice in a run, and once a response has failed or
   come back malformed no further call is made: the run is Failed, or is on
   its way there reporting the failed assignment. *)
C8_NoRetry ==
    /\ [](\A i, j \in 1..Len(calls) : calls[i] = calls[j] => i = j)
    /\ [](Failing =>
            \/ pc = "failed"
            \/ pc = "report" /\ ~success)
    /\ [][(Failing \/ pc = "failed") => calls' = calls]_vars

C8_Witness ==
    /\ pc = "failed"
    /\ calls = <<"probe", "getServers">>
    /\ "json" \in DOMAIN result
    /\ ~HasKey(result.json, "data")

\* the line-th statement of the script printed text as the last thing on stdout
LastPrinted(line, text) ==
    /\ stdout # <<>>
    /\ Last(stdout).line = line
    /\ Last(stdout).text = text

PrintedAt(line) == \E i \in 1..Len(stdout) : stdout[i].line = line

(* C9 as stated: exit code 0 on successful assignment, 1 on any failure, and
   on every failure the failure's raw payload is on standard output (the
   last thing printed) before the exit. *)
C9_EveryFailurePrintsPayload ==
    /\ pc = "done" => exit_code = {0}
    /\ pc = "failed" =>
            /\ exit_code = {1}
            /\ stdout # <<>>
            /\ Last(stdout).line \in {107, 150}

(* C9, amended: the run exits with 0 exactly when the assignment was
   classified successful and with 1 on every failure; a failure found by
   classifying the mutation's response has that response, unchanged, as the
   last thing on standard output; a failure that is an uncaught exception
   prints no failure report, and has put the mutation's response on standard
   output only if the exception came from classifying it. *)
C9_ExitCodeAndReport ==
    /\ exit_code = NotExited <=> pc \notin {"done", "failed"}
    /\ pc = "done" =>
            /\ exit_code = {0}
            /\ success
            /\ error = NoError
    /\ pc = "failed" => exit_code = {1}
    /\ (pc = "failed" /\ error = NoError) =>
            /\ ~success
            /\ responce = result.json
            /\ LastPrinted(150, result.json)
    /\ (pc = "failed" /\ error # NoError) =>
            /\ ~PrintedAt(149)
            /\ ~PrintedAt(150)
            /\ PrintedAt(107) <=> error.line \in {110, 111, 112}

C9_Witness ==
    /\ pc = "failed"
    /\ error = NoError
    /\ HasKey(result.json, "errors")
    /\ LastPrinted(150, result.json)

(* C10: when the parsed envelope of getServers or getClusterState has no
   data field the call fails with the KeyError of data['data'], which is not
   the error of a call that could not complete; no servers and no cluster
   description come out of it, and the run is over without the mutation. *)
C10_NoDataIsProtocolError ==
    (/\ calls # <<>>
     /\ Last(calls) \in {"getServers", "getClusterState"}
     /\ pc \notin {"get_servers_wait", "get_cluster_info_wait"}
     /\ "json" \in DOMAIN result
     /\ ~HasKey(result.json, "data")) =>
        /\ pc = "failed"
        /\ error.raise = "KeyError"
        /\ error.raise # "URLError"
        /\ error.line = (IF Last(calls) = "getServers" THEN 59 ELSE 84)
        /\ Last(calls) = "getServers" => servers = <<>>
        /\ Last(calls) = "getClusterState" => cluster_info = Unset
        /\ ~Issued("assignRole")

C10_Witness ==
    /\ pc = "failed"
    /\ Last(calls) = "getClusterState"
    /\ "json" \in DOMAIN result
    /\ ~HasKey(result.json, "data")
    /\ error = Raise("KeyError", 84)

(* C11: assign_roles called with an empty roles list is rejected by its own
   assert before anything is sent: no mutation ever goes out with an empty
   roles list, and the rejection is an AssertionError, not the error of a
   call that could not complete. *)
C11_EmptyRolesRejected ==
    /\ Issued("assignRole") =>
            /\ roles # <<>>
            /\ variables.roles.arr # <<>>
    /\ (roles = <<>> /\ pc # "called") =>
            /\ pc = "failed"
            /\ error = Raise("AssertionError", 88)
            /\ error.raise # "URLError"
            /\ calls = <<>>
            /\ result = Unset
            /\ variables = Unset

C11_Witness ==
    /\ roles = <<>>
    /\ pc = "failed"
    /\ error = Raise("AssertionError", 88)

\* get_servers has returned the servers of the response in result
ServersParsed ==
    /\ calls # <<>>
    /\ Last(calls) = "getServers"
    /\ pc # "get_servers_wait"
    /\ "json" \in DOMAIN result
    /\ HasKey(result.json, "data")
    /\ HasKey(result.json.obj.data, "serverList")
    /\ IsArr(result.json.obj.data.obj.serverList)

ServerList == result.json.obj.data.obj.serverList.arr

\* every entry has a uri and no two entries have the same
DistinctUris(list) ==
    \A i, j \in 1..Len(list) :
        /\ list[i].uri # Absent
        /\ list[i].uri = list[j].uri => i = j

(* C12: get_servers returns as many servers as serverList has entries, in
   the same order, each with the uri of its entry; when the entries' uris
   are distinct so are the uris of the servers returned. *)
C12_ServersPreserved ==
    ServersParsed =>
        /\ Len(servers) = Len(ServerList)
        /\ \A i \in 1..Len(ServerList) :
                ServerList[i].uri # Absent => servers[i].uri = ServerList[i].uri
        /\ DistinctUris(ServerList) =>
                \A i, j \in 1..Len(servers) :
                    servers[i].uri = servers[j].uri => i = j

C12_Witness ==
    /\ ServersParsed
    /\ pc = "get_cluster_info"
    /\ Len(ServerList) = 2
    /\ DistinctUris(ServerList)
    /\ servers[1].uri = JStr("b:2")
    /\ servers[2].uri = JStr("a:1")

\* the probe has come back, and nothing after it has
ProbeAnswered ==
    /\ calls # <<>>
    /\ pc # "ping_wait"
    /\ \/ "status" \in DOMAIN result
       \/ "raise" \in DOMAIN result /\ result.raise \in {"Timeout", "ConnectionError"}

(* C13: a probe that times out or answers with a status outside 200..299
   ends the run there, with the exception of the request or the
   AssertionError of the status check, and no other call is issued. *)
C13_ProbeFailureAborts ==
    (/\ ProbeAnswered
     /\ \/ "raise" \in DOMAIN result
        \/ result.status \notin 200..299) =>
        /\ pc = "failed"
        /\ calls = <<"probe">>
        /\ error.line \in {121, 122}
        /\ "raise" \in DOMAIN result => error = Raise(result.raise, 121)
        /\ "status" \in DOMAIN result => error = Raise("AssertionError", 122)

C13_Witness ==
    /\ ProbeAnswered
    /\ result = [raise |-> "Timeout"]
    /\ pc = "failed"
    /\ calls = <<"probe">>

\* get_servers has returned an empty list
NoServers == ServersParsed /\ ServerList = <<>>

(* C17: when get_servers returns an empty list the run fails at the assert
   that follows the discovery: get_cluster_info is not called, find and its
   default servers[0] are not evaluated, and no mutation is issued. *)
C17_EmptyServersAbort ==
    /\ NoServers =>
            /\ pc = "failed"
            /\ error = Raise("AssertionError", 130)
            /\ calls = <<"probe", "getServers">>
            /\ cluster_info = Unset
            /\ key_value_server = Unset
    /\ Issued("getClusterState") => servers # <<>>

C17_Witness ==
    /\ NoServers
    /\ pc = "failed"
    /\ servers = <<>>
    /\ error = Raise("AssertionError", 130)

(* C18: the run goes from the probe to get_servers if and only if the probe
   came back with status 200; any other status, 204 included, and any
   exception ends the run with the probe as its only call. *)
C18_Exactly200 ==
    /\ Issued("getServers") => ping = 200
    /\ ProbeAnswered =>
            IF "status" \in DOMAIN result /\ result.status = 200
            THEN pc \in {"get_servers", "get_servers_wait"} /\ error = NoError
            ELSE pc = "failed" /\ calls = <<"probe">>

C18_Witness ==
    /\ ProbeAnswered
    /\ result = [status |-> 204]
    /\ pc = "failed"
    /\ error = Raise("AssertionError", 122)

\* the variables carry the server description field by field
CarriesDescriptor(vs, server_description) ==
    /\ DOMAIN vs = FieldSet \cup {"roles"}
    /\ \A f \in FieldSet : vs[f] = server_description[f]

(* C15: the mutation goes out for the node find has chosen: its variables
   are that node's uri, alias, status, uuid, message and replicaset,
   unchanged, together with roles, which is the list of roles asked for and
   not a field of the node. *)
C15_VariablesOfLocatedNode ==
    Issued("assignRole") =>
        /\ Located
        /\ CarriesDescriptor(variables, key_value_server)
        /\ roles = Roles
        /\ variables.roles = JArr(Roles)

C15_Witness ==
    /\ calls = Order
    /\ servers[1] # key_value_server
    /\ variables.uri = JStr("a:1")
    /\ variables.status = JStr("healthy")
    /\ variables.roles = JArr(<<JStr("key-value")>>)

Count(call) == Cardinality({i \in 1..Len(calls) : calls[i] = call})

(* C19: a run that ends in Done has issued exactly one mutation, for the
   located node and with the role the fetched knownRoles lists, and the
   mutation's response was classified successful; a run that ends in Failed
   has issued at most one mutation. *)
C19_DoneMeansOneGoodMutation ==
    /\ pc = "done" =>
            /\ Count("assignRole") = 1
            /\ Located
            /\ \E i \in 1..Len(servers) : servers[i] = key_value_server
            /\ CarriesDescriptor(variables, key_value_server)
            /\ variables.roles = JArr(<<JStr(Role)>>)
            /\ RoleIn(cluster_info)
            /\ success
            /\ "json" \in DOMAIN result
            /\ SuccessShape(result.json, ResultKey)
            /\ exit_code = {0}
    /\ pc = "failed" => Count("assignRole") <= 1

C19_Witness ==
    /\ pc = "done"
    /\ Count("assignRole") = 1
    /\ HasKey(result.json.obj.data, "join_server")
    /\ key_value_server.uri = bootstraped_uri

-----------------------------------------------------------------------------
(* The run with get_cluster_info called once more: right after the first
   read, or right after assign_roles has returned. *)

ReadAgainSend ==
    /\ pc \in {"find", "report"}
    /\ Last(calls) = IF pc = "find" THEN "getClusterState" ELSE "assignRole"
    /\ Count("getClusterState") = IF pc = "find" THEN Count("probe")
                                                 ELSE Count("assignRole")
    /\ calls' = Append(calls, "getClusterState")
    /\ pc' = IF pc = "find" THEN "find_read" ELSE "report_read"
    /\ cluster' = Serve(get_cluster_info_operation, Unset, cluster)
    /\ answers' = Forget(get_cluster_info_operation, answers)
    /\ UNCHANGED <<ping, result, servers, cluster_info, bootstraped_uri,
                   key_value_server, variables, roles, success, responce, stdout,
                   error, exit_code>>

ReadAgainRecv ==
    /\ pc \in {"find_read", "report_read"}
    /\ \E r \in Answers(ClusterResponses, answers.getClusterState) :
        LET o == get_cluster_info(r)
        IN  /\ result' = r
            /\ answers' = [answers EXCEPT !.getClusterState = AnswerOnRecord(r, @)]
            /\ IF ~IsOk(o)
               THEN /\ Uncaught(o)
                    /\ UNCHANGED cluster_info
               ELSE /\ cluster_info' = o.ok
                    /\ Continue(IF pc = "find_read" THEN "find" ELSE "report")
    /\ UNCHANGED <<cluster, calls, ping, servers, bootstraped_uri,
                   key_value_server, variables, roles, success, responce, stdout>>

ReadNext ==
    \/ Next
    \/ ReadAgainSend
    \/ ReadAgainRecv

ReadSpec == Init /\ [][ReadNext]_vars

\* the step sends the call
Sends(call) == calls' = Append(calls, call)

\* the step is the return of a cluster read that follows an earlier read
\* with no mutation sent in between
RereadReturns ==
    /\ pc \in {"get_cluster_info_wait", "find_read", "report_read"}
    /\ error' = NoError
    /\ \E i \in 1..(Len(calls) - 1) :
            /\ calls[i] = "getClusterState"
            /\ \A k \in (i + 1)..(Len(calls) - 1) : calls[k] = "getServers"

(* C14: getServers and getClusterState leave the control plane's state as it
   is, assignRole is the only call of a run that changes it, and a cluster
   read that follows another one with no mutation in between returns the
   value the first one returned. *)
C14_OnlyAssignRoleMutates ==
    [][ /\ (Sends("getServers") \/ Sends("getClusterState"))
            => cluster' = cluster
        /\ cluster' # cluster => Sends("assignRole")
        /\ RereadReturns => cluster_info' = cluster_info ]_vars

\* a second read has returned what the first returned, and a third call,
\* the mutation, has changed the control plane
C14_Witness ==
    /\ pc = "report"
    /\ calls = <<"probe", "getServers", "getClusterState", "getClusterState",
               "assignRole">>
    /\ IsObj(cluster_info)
    /\ Len(cluster) = 1
    /\ error = NoError

\* a read after the mutation returns another value than the read before it
C14_ReadAfterMutationDiffers ==
    /\ pc = "report"
    /\ calls = <<"probe", "getServers", "getClusterState", "assignRole",
               "getClusterState">>
    /\ IsOk(self_uri(cluster_info))
    /\ self_uri(cluster_info).ok # bootstraped_uri

-----------------------------------------------------------------------------
Terminal == pc \in {"done", "failed"}

\* the run is inside a topology or mutation call
InExecute == pc \in {"get_servers_wait", "get_cluster_info_wait",
                     "assign_roles_wait"}

(* C16: if each topology and mutation call returns, the run reaches Done or
   Failed; with no such assumption a run either reaches Done or Failed or
   stays forever inside a topology or mutation call, in Discovering or
   Assigning. *)
C16_TerminatesIfCallsReturn ==
    /\ WF_vars(Returns) => <>Terminal
    /\ <>Terminal \/ <>[](InExecute /\ RunState(pc) \in {"Discovering", "Assigning"})

\* a run that went through every network call and ended
C16_Witness ==
    /\ Terminal
    /\ calls = <<"probe", "getServers", "getClusterState", "assignRole">>
    /\ "json" \in DOMAIN result

\* without the assumption on the calls a run need not end
C16_TerminatesUnassumed == <>Terminal

====
